---- MODULE Spec2Model ----
(***************************************************************************)
(* Frame processor (OpenCVProcessor) and its JNI entry points.             *)
(*                                                                         *)
(* A cv::Mat is a record [rows, cols, ch, data]; data is the pixel bytes   *)
(* in row-major order, <<>> when the matrix holds no allocation.           *)
(* Doubles (the Canny thresholds) are modelled by the integers they hold.  *)
(***************************************************************************)
EXTENDS Integers, Sequences, FiniteSets, TLC

\* ---------------------------------------------------------------- bounds
MaxH == 3
\* allocation failures one behaviour goes through
MaxAllocFailures == 1

\* widths and heights a caller passes to init: an invalid one, and valid ones
\* that make even and odd frame heights
Widths == {0, 2}
Heights == 0 .. MaxH
\* the input frames (see InputFrame)
Patterns == {1}
Modes == 0 .. 3
\* values an uninitialised or out-of-bounds byte may turn out to hold
GarbageBytes == {0, 255}
\* which of the five cv::Mat allocations of init throws, when one does: the
\* first, before any buffer is replaced, or the third, in the middle
AllocFailures == {1, 3}

\* a pointer to a byte array, or the null pointer
NullPtr == [null |-> TRUE, bytes |-> << >>]
Ptr(bytes) == [null |-> FALSE, bytes |-> bytes]

\* ----------------------------------------------------------- cv::Mat
NoMat == [rows |-> 0, cols |-> 0, ch |-> 0, data |-> << >>]

\* a byte of freshly allocated memory that nothing has written yet; what it
\* holds is decided when it is read
Indeterminate == -1

Resolve(byte, garbage) == IF byte = Indeterminate THEN garbage ELSE byte

\* the function f on 1 .. n, as a tuple of values
Tuple(f) == f \o << >>

\* cv::Mat(rows, cols, type): the constructor does not initialise the pixels
NewMat(rows, cols, ch) ==
    [rows |-> rows, cols |-> cols, ch |-> ch,
     data |-> Tuple([i \in 1 .. (rows * cols * ch) |-> Indeterminate])]

Allocated(m) == m.data # << >>

Bytes(m) == Len(m.data)

\* cv::Mat::create: keeps the allocation when size and type already match
Create(m, rows, cols, ch) ==
    IF Allocated(m) /\ m.rows = rows /\ m.cols = cols /\ m.ch = ch
    THEN m
    ELSE NewMat(rows, cols, ch)

\* memcpy(dst, src, n) on byte sequences: bytes past the end of src read as
\* garbage, bytes past the end of dst land outside dst
Memcpy(dst, src, n, garbage) ==
    Tuple([i \in 1 .. Len(dst) |->
        IF i <= n THEN (IF i <= Len(src) THEN src[i] ELSE garbage) ELSE dst[i]])

MemcpyUB(dst, src, n) ==
    (IF n > Len(src) THEN {"read_past_end"} ELSE {})
    \cup (IF n > Len(dst) THEN {"write_past_end"} ELSE {})

Sat(x) == IF x < 0 THEN 0 ELSE IF x > 255 THEN 255 ELSE x

Abs(x) == IF x < 0 THEN -x ELSE x

\* ------------------------------------------------ cv::cvtColor, NV21 -> RGBA
ITUR_BT_601_SHIFT == 20
ITUR_BT_601_CY == 1220542
ITUR_BT_601_CUB == 2116026
ITUR_BT_601_CUG == -409993
ITUR_BT_601_CVG == -852492
ITUR_BT_601_CVR == 1673527

Pow2(n) == IF n = 20 THEN 1048576 ELSE IF n = 19 THEN 524288
           ELSE IF n = 16 THEN 65536 ELSE IF n = 15 THEN 32768
           ELSE IF n = 14 THEN 16384 ELSE 2 ^ n

\* the conversion rejects a source that is empty, of odd width, or whose row
\* count is no multiple of 3 (cv::Exception)
cvtColorYuvThrows(src) ==
    \/ ~Allocated(src)
    \/ src.cols % 2 # 0
    \/ src.rows % 3 # 0

YuvPixel(src, r, c, k, garbage) ==
    LET w == src.cols
        h == (src.rows * 2) \div 3
        y == Resolve(src.data[r * w + c + 1], garbage)
        base == h * w + (r \div 2) * w + (c \div 2) * 2
        v == Resolve(src.data[base + 1], garbage) - 128
        u == Resolve(src.data[base + 2], garbage) - 128
        half == Pow2(ITUR_BT_601_SHIFT - 1)
        y00 == (IF y - 16 > 0 THEN y - 16 ELSE 0) * ITUR_BT_601_CY
        ruv == half + ITUR_BT_601_CVR * v
        guv == half + ITUR_BT_601_CVG * v + ITUR_BT_601_CUG * u
        buv == half + ITUR_BT_601_CUB * u
    IN  CASE k = 0 -> Sat((y00 + ruv) \div Pow2(ITUR_BT_601_SHIFT))
          [] k = 1 -> Sat((y00 + guv) \div Pow2(ITUR_BT_601_SHIFT))
          [] k = 2 -> Sat((y00 + buv) \div Pow2(ITUR_BT_601_SHIFT))
          [] OTHER -> 255

cvtColorYuv2Rgba(src, dst, garbage) ==
    LET w == src.cols
        h == (src.rows * 2) \div 3
        d == Create(dst, h, w, 4)
    IN  [d EXCEPT !.data =
            Tuple([i \in 1 .. (h * w * 4) |->
                YuvPixel(src, ((i - 1) \div 4) \div w, ((i - 1) \div 4) % w,
                         (i - 1) % 4, garbage)])]

\* ------------------------------------------------ cv::cvtColor, RGBA -> GRAY
RY15 == 9798
GY15 == 19235
BY15 == 3735
GrayShift == 15

cvtColorRgba2Gray(src, dst) ==
    LET d == Create(dst, src.rows, src.cols, 1)
    IN  [d EXCEPT !.data =
            Tuple([i \in 1 .. (src.rows * src.cols) |->
                LET r == src.data[(i - 1) * 4 + 1]
                    g == src.data[(i - 1) * 4 + 2]
                    b == src.data[(i - 1) * 4 + 3]
                IN  (r * RY15 + g * GY15 + b * BY15 + Pow2(GrayShift - 1))
                        \div Pow2(GrayShift)])]

\* ------------------------------------------------ cv::cvtColor, GRAY -> RGBA
cvtColorGray2Rgba(src, dst) ==
    LET d == Create(dst, src.rows, src.cols, 4)
    IN  [d EXCEPT !.data =
            Tuple([i \in 1 .. (src.rows * src.cols * 4) |->
                IF (i - 1) % 4 = 3 THEN 255 ELSE src.data[((i - 1) \div 4) + 1]])]

\* ------------------------------------------------ cv::GaussianBlur, 5x5, sigma 1.5
\* the 5-tap kernel for sigma 1.5 in the library's 8.8 fixed point (sum 256)
GaussKernel == << 31, 60, 74, 60, 31 >>

RECURSIVE Reflect101(_, _)
\* BORDER_REFLECT_101, the default border of the blur
Reflect101(p, len) ==
    IF len = 1 THEN 0
    ELSE IF p < 0 THEN Reflect101(-p, len)
    ELSE IF p >= len THEN Reflect101(2 * len - 2 - p, len)
    ELSE p

\* the horizontal pass, row-major, in 8.8 fixed point
BlurRows(src) ==
    Tuple([i \in 1 .. (src.rows * src.cols) |->
        LET r == (i - 1) \div src.cols
            c == (i - 1) % src.cols
        IN  GaussKernel[1] * src.data[r * src.cols + Reflect101(c - 2, src.cols) + 1]
            + GaussKernel[2] * src.data[r * src.cols + Reflect101(c - 1, src.cols) + 1]
            + GaussKernel[3] * src.data[r * src.cols + c + 1]
            + GaussKernel[4] * src.data[r * src.cols + Reflect101(c + 1, src.cols) + 1]
            + GaussKernel[5] * src.data[r * src.cols + Reflect101(c + 2, src.cols) + 1]])

\* the vertical pass over the horizontal one, rounded back to 8 bits
BlurColumns(src, hor) ==
    Tuple([i \in 1 .. (src.rows * src.cols) |->
        LET r == (i - 1) \div src.cols
            c == (i - 1) % src.cols
        IN  Sat((GaussKernel[1] * hor[Reflect101(r - 2, src.rows) * src.cols + c + 1]
                 + GaussKernel[2] * hor[Reflect101(r - 1, src.rows) * src.cols + c + 1]
                 + GaussKernel[3] * hor[r * src.cols + c + 1]
                 + GaussKernel[4] * hor[Reflect101(r + 1, src.rows) * src.cols + c + 1]
                 + GaussKernel[5] * hor[Reflect101(r + 2, src.rows) * src.cols + c + 1]
                 + Pow2(15)) \div Pow2(16))])

\* in place: the result has the shape of src
GaussianBlur(src) == [src EXCEPT !.data = BlurColumns(src, BlurRows(src))]

\* ------------------------------------------------ cv::Canny, aperture 3, L1 norm
TG22 == 13573
CannyShift == 15

Clamp(p, len) == IF p < 0 THEN 0 ELSE IF p >= len THEN len - 1 ELSE p

\* a pixel of src, BORDER_REPLICATE outside it
Replicate(src, r, c) ==
    src.data[Clamp(r, src.rows) * src.cols + Clamp(c, src.cols) + 1]

\* Sobel 3x3, horizontal derivative
SobelDx(src) ==
    Tuple([i \in 1 .. (src.rows * src.cols) |->
        LET r == (i - 1) \div src.cols
            c == (i - 1) % src.cols
        IN  (Replicate(src, r - 1, c + 1) + 2 * Replicate(src, r, c + 1)
             + Replicate(src, r + 1, c + 1))
            - (Replicate(src, r - 1, c - 1) + 2 * Replicate(src, r, c - 1)
               + Replicate(src, r + 1, c - 1))])

\* Sobel 3x3, vertical derivative
SobelDy(src) ==
    Tuple([i \in 1 .. (src.rows * src.cols) |->
        LET r == (i - 1) \div src.cols
            c == (i - 1) % src.cols
        IN  (Replicate(src, r + 1, c - 1) + 2 * Replicate(src, r + 1, c)
             + Replicate(src, r + 1, c + 1))
            - (Replicate(src, r - 1, c - 1) + 2 * Replicate(src, r - 1, c)
               + Replicate(src, r - 1, c + 1))])

\* L1 gradient magnitude
Magnitude(dxs, dys) ==
    Tuple([i \in 1 .. Len(dxs) |-> Abs(dxs[i]) + Abs(dys[i])])

\* the magnitude map carries a border of zeros
MagAt(mag, R, C, r, c) ==
    IF r < 0 \/ r >= R \/ c < 0 \/ c >= C THEN 0 ELSE mag[r * C + c + 1]

\* non-maximum suppression along the quantised gradient direction
IsMax(mag, dxs, dys, R, C, r, c) ==
    LET m == mag[r * C + c + 1]
        xs == dxs[r * C + c + 1]
        ys == dys[r * C + c + 1]
        x == Abs(xs)
        y == Abs(ys) * Pow2(CannyShift)
        tg22x == x * TG22
        tg67x == x * TG22 + x * Pow2(CannyShift + 1)
        s == IF (xs < 0) # (ys < 0) THEN -1 ELSE 1
    IN  IF y < tg22x
        THEN m > MagAt(mag, R, C, r, c - 1) /\ m >= MagAt(mag, R, C, r, c + 1)
        ELSE IF y > tg67x
        THEN m > MagAt(mag, R, C, r - 1, c) /\ m >= MagAt(mag, R, C, r + 1, c)
        ELSE m > MagAt(mag, R, C, r - 1, c - s) /\ m > MagAt(mag, R, C, r + 1, c + s)

\* the pixels above the low threshold that survive the suppression
Candidates(mag, dxs, dys, R, C, low) ==
    {q \in (0 .. (R - 1)) \X (0 .. (C - 1)) :
        mag[q[1] * C + q[2] + 1] > low /\ IsMax(mag, dxs, dys, R, C, q[1], q[2])}

RECURSIVE Hysteresis(_, _)
\* grows the set of strong pixels by the candidates 8-adjacent to it
Hysteresis(edges, cand) ==
    IF \E q \in cand \ edges :
          \E e \in edges : Abs(q[1] - e[1]) <= 1 /\ Abs(q[2] - e[2]) <= 1
    THEN Hysteresis(
             edges \cup {q \in cand \ edges :
                            \E e \in edges : Abs(q[1] - e[1]) <= 1
                                             /\ Abs(q[2] - e[2]) <= 1},
             cand)
    ELSE edges

\* the linking started from the candidates at or below the high threshold
Linked_atMostHigh(cand, mag, C, high) ==
    Hysteresis({q \in cand : mag[q[1] * C + q[2] + 1] <= high}, cand)

\* the candidates above the high threshold, and those linked to them
Linked(cand, mag, C, high) ==
    Hysteresis({q \in cand : mag[q[1] * C + q[2] + 1] > high}, cand)

Suppressed(mag, dxs, dys, R, C, low, high) ==
    Linked(Candidates(mag, dxs, dys, R, C, low), mag, C, high)

Gradients(dxs, dys, R, C, low, high) ==
    Suppressed(Magnitude(dxs, dys), dxs, dys, R, C, low, high)

\* the edge pixels; the thresholds are swapped when given in the wrong order
CannyEdges(src, lowThresh, highThresh) ==
    Gradients(SobelDx(src), SobelDy(src), src.rows, src.cols,
              IF lowThresh > highThresh THEN highThresh ELSE lowThresh,
              IF lowThresh > highThresh THEN lowThresh ELSE highThresh)

EdgeMap(src, d, edges) ==
    [d EXCEPT !.data =
        Tuple([i \in 1 .. (src.rows * src.cols) |->
            IF << (i - 1) \div src.cols, (i - 1) % src.cols >> \in edges
            THEN 255 ELSE 0])]

Canny(src, dst, lowThresh, highThresh) ==
    EdgeMap(src, Create(dst, src.rows, src.cols, 1),
            CannyEdges(src, lowThresh, highThresh))

\* ------------------------------------------------ OpenCVProcessor
DefaultLowThreshold == 50
DefaultHighThreshold == 150
\* 20 lies below the gradient of the blurred test frames
ThresholdChoices == {<< 20, 20 >>, << DefaultHighThreshold, 20 >>}

MODE_RAW == 0
MODE_GRAYSCALE == 1
MODE_CANNY == 2

\* the object as its constructor leaves it
OpenCVProcessor ==
    [frameWidth |-> 0, frameHeight |-> 0,
     cannyLowThreshold |-> DefaultLowThreshold,
     cannyHighThreshold |-> DefaultHighThreshold,
     initialized |-> FALSE,
     yuvMat |-> NoMat, rgbaMat |-> NoMat, grayMat |-> NoMat,
     edgesMat |-> NoMat, tempMat |-> NoMat]

\* init checking the width only
InvalidDimensions_widthOnly(width, height) == width <= 0

InvalidDimensions(width, height) == width <= 0 \/ height <= 0

\* rows of the matrix init allocates for the planar input
YuvRows(height) == height + height \div 2

\* init: failAt = k > 0 makes the k-th cv::Mat constructor throw; the
\* exception leaves init at that statement, nothing in init catches it
init(P, width, height, failAt) ==
    IF InvalidDimensions(width, height)
    THEN [P |-> P, ret |-> "false"]
    ELSE LET done(k) == failAt = 0 \/ failAt > k
         IN  [P |-> [P EXCEPT
                        !.frameWidth = width,
                        !.frameHeight = height,
                        !.yuvMat = IF done(1) THEN NewMat(YuvRows(height), width, 1) ELSE @,
                        !.rgbaMat = IF done(2) THEN NewMat(height, width, 4) ELSE @,
                        !.grayMat = IF done(3) THEN NewMat(height, width, 1) ELSE @,
                        !.edgesMat = IF done(4) THEN NewMat(height, width, 1) ELSE @,
                        !.tempMat = IF done(5) THEN NewMat(height, width, 4) ELSE @,
                        !.initialized = IF done(5) THEN TRUE ELSE @],
              ret |-> IF failAt = 0 THEN "true" ELSE "exception"]

release(P) ==
    IF P.initialized
    THEN [P EXCEPT !.yuvMat = NoMat, !.rgbaMat = NoMat, !.grayMat = NoMat,
                   !.edgesMat = NoMat, !.tempMat = NoMat, !.initialized = FALSE]
    ELSE P

\* setCannyThresholds putting its arguments in order
setCannyThresholds_sorted(P, low, high) ==
    [P EXCEPT !.cannyLowThreshold = IF low > high THEN high ELSE low,
              !.cannyHighThreshold = IF low > high THEN low ELSE high]

setCannyThresholds(P, low, high) ==
    [P EXCEPT !.cannyLowThreshold = low, !.cannyHighThreshold = high]

\* bytes the converter copies in, bytes the dispatcher copies out
YuvCopyLen(P) == (P.frameWidth * P.frameHeight * 3) \div 2
RgbaCopyLen(P) == P.frameWidth * P.frameHeight * 4

Min(a, b) == IF a < b THEN a ELSE b

\* the colour conversion of the filled source matrix into rgbaMat; a
\* conversion that rejects the layout reads no pixel. trace lists the
\* accesses of the call in order: << "read" or "write", the buffer, how many
\* of its bytes, counted from its first >>
Converted(P, src, ub, garbage) ==
    IF cvtColorYuvThrows(src)
    THEN [P |-> [P EXCEPT !.yuvMat = src], threw |-> TRUE, ub |-> ub,
          trace |-> << <<"write", "yuvMat", Min(YuvCopyLen(P), Bytes(src))>>,
                       <<"read", "yuvMat", 0>> >>]
    ELSE [P |-> [P EXCEPT !.yuvMat = src,
                          !.rgbaMat = cvtColorYuv2Rgba(src, @, garbage)],
          threw |-> FALSE, ub |-> ub,
          trace |-> << <<"write", "yuvMat", Min(YuvCopyLen(P), Bytes(src))>>,
                       <<"read", "yuvMat", Bytes(src)>>,
                       <<"write", "rgbaMat",
                         ((src.rows * 2) \div 3) * src.cols * 4>> >>]

\* yuvToRgba: the copy into yuvMat, then the colour conversion
yuvToRgba(P, yuvData, garbage) ==
    Converted(P,
              [P.yuvMat EXCEPT !.data = Memcpy(@, yuvData.bytes, YuvCopyLen(P),
                                               garbage)],
              MemcpyUB(P.yuvMat.data, yuvData.bytes, YuvCopyLen(P)),
              garbage)

\* the expansion of the luma matrix into tempMat
GrayExpanded(P, gray) ==
    [P |-> [P EXCEPT !.grayMat = gray,
                     !.tempMat = cvtColorGray2Rgba(gray, @)],
     trace |-> << <<"read", "rgbaMat", Bytes(P.rgbaMat)>>,
                  <<"write", "grayMat", Bytes(gray)>>,
                  <<"read", "grayMat", Bytes(gray)>>,
                  <<"write", "tempMat", Bytes(gray) * 4>> >>]

applyGrayscale(P) ==
    GrayExpanded(P, cvtColorRgba2Gray(P.rgbaMat, P.grayMat))

\* the expansion of the edge map into tempMat
EdgesExpanded(P, blur, edges) ==
    [P |-> [P EXCEPT !.grayMat = blur,
                     !.edgesMat = edges,
                     !.tempMat = cvtColorGray2Rgba(edges, @)],
     trace |-> << <<"read", "rgbaMat", Bytes(P.rgbaMat)>>,
                  <<"write", "grayMat", Bytes(blur)>>,
                  <<"read", "grayMat", Bytes(blur)>>,
                  <<"write", "grayMat", Bytes(blur)>>,
                  <<"read", "grayMat", Bytes(blur)>>,
                  <<"write", "edgesMat", Bytes(edges)>>,
                  <<"read", "edgesMat", Bytes(edges)>>,
                  <<"write", "tempMat", Bytes(edges) * 4>> >>]

\* the edge extraction on the blurred luma matrix
Blurred(P, blur) ==
    EdgesExpanded(P, blur, Canny(blur, P.edgesMat, P.cannyLowThreshold,
                                 P.cannyHighThreshold))

applyCanny(P) ==
    Blurred(P, GaussianBlur(cvtColorRgba2Gray(P.rgbaMat, P.grayMat)))

\* processFrame without its state check
NotInitialized_unchecked(P) == FALSE

NotInitialized(P) == ~P.initialized

NullPointers(yuvData, outputRgba) == yuvData.null \/ outputRgba.null

\* what a returning processFrame reports; ub names the undefined behaviour
\* it went through on the way
Outcome(P, ret, out, ub, readLen, writeLen, trace) ==
    [P |-> P, ret |-> ret, out |-> out, ub |-> ub, readLen |-> readLen,
     writeLen |-> writeLen, trace |-> trace]

\* the copy of a result matrix into the caller's output
CopyOut(conv, Q, from, which, outputRgba, garbage, trace) ==
    Outcome(Q, "true",
            Memcpy(outputRgba.bytes, from.data, RgbaCopyLen(Q), garbage),
            conv.ub \cup MemcpyUB(outputRgba.bytes, from.data, RgbaCopyLen(Q)),
            YuvCopyLen(Q), RgbaCopyLen(Q),
            trace \o << <<"read", which, RgbaCopyLen(Q)>> >>)

\* the copy of tempMat after a transform step
CopyOutScratch(conv, step, outputRgba, garbage) ==
    CopyOut(conv, step.P, step.P.tempMat, "tempMat", outputRgba, garbage,
            conv.trace \o step.trace)

\* the switch on the mode after the converter step; a cv::Exception of the
\* converter step is caught and reported as false
Dispatch(P, conv, outputRgba, mode, garbage) ==
    IF conv.threw
    THEN Outcome(conv.P, "false", outputRgba.bytes, conv.ub, YuvCopyLen(P), 0,
                 conv.trace)
    ELSE CASE mode = MODE_RAW ->
                CopyOut(conv, conv.P, conv.P.rgbaMat, "rgbaMat", outputRgba,
                        garbage, conv.trace)
           [] mode = MODE_GRAYSCALE ->
                CopyOutScratch(conv, applyGrayscale(conv.P), outputRgba, garbage)
           [] mode = MODE_CANNY ->
                CopyOutScratch(conv, applyCanny(conv.P), outputRgba, garbage)
           [] OTHER ->
                Outcome(conv.P, "false", outputRgba.bytes, conv.ub,
                        YuvCopyLen(P), 0, conv.trace)

\* processFrame: yuvSize is a parameter the body never uses
processFrame(P, yuvData, yuvSize, outputRgba, mode, garbage) ==
    IF NotInitialized(P)
    THEN Outcome(P, "false", outputRgba.bytes, {}, 0, 0, << >>)
    ELSE IF NullPointers(yuvData, outputRgba)
    THEN Outcome(P, "false", outputRgba.bytes, {}, 0, 0, << >>)
    ELSE Dispatch(P, yuvToRgba(P, yuvData, garbage), outputRgba, mode, garbage)

\* ------------------------------------------------ state
VARIABLES
    processor,      \* the OpenCVProcessor object a caller drives directly
    g_processor,    \* jni_bridge.cpp: the handle, [null, obj]; obj is the object it points to
    call,           \* the last call: its arguments and what it reported
    output,         \* the output array of the last call after it (<<>>: none)
    allocFailed,    \* history: how many cv::Mat allocations have thrown
    frameFailed,    \* history: the call that returned last was a processFrame
                    \* reporting failure on an initialized processor
    lastThresholds, \* history: the arguments of the most recent call that sets
                    \* the thresholds, << low, high >>; the defaults before it
    instances,      \* jni_bridge.cpp: how many OpenCVProcessor objects are on the heap
    nativeInitOk,   \* history: the most recent nativeInit returned true and
                    \* nativeRelease was not called since
    canny           \* the threshold experiment (see SpecCanny)

vars == << processor, g_processor, call, output, allocFailed, frameFailed,
           lastThresholds, instances, nativeInitOk, canny >>

NoCall ==
    [op |-> "none", ret |-> "none", mode |-> 0, inLen |-> 0,
     outLen |-> 0, nullIn |-> FALSE, nullOut |-> FALSE, positive |-> FALSE,
     readLen |-> 0,
     writeLen |-> 0, ub |-> {}, trace |-> << >>,
     acquired |-> {}, released |-> << >>, invoked |-> FALSE, deleted |-> 0]

\* no threshold experiment is running
NoCanny == [stage |-> 0]

Init ==
    /\ processor = OpenCVProcessor
    /\ g_processor = [null |-> TRUE, obj |-> OpenCVProcessor]
    /\ call = NoCall
    /\ output = << >>
    /\ allocFailed = 0
    /\ frameFailed = FALSE
    /\ lastThresholds = << DefaultLowThreshold, DefaultHighThreshold >>
    /\ instances = 0
    /\ nativeInitOk = FALSE
    /\ canny = NoCanny

\* the caller is between two calls
Idle == call.op = "none"

\* ------------------------------------------------ the callers' inputs
\* frame 0 is all zero, frame 1 alternates 16 and 235 (a sharp vertical
\* discontinuity in the luma plane), any further frame is uniform grey
InputFrame(pattern, len) ==
    Tuple([i \in 1 .. len |->
        CASE pattern = 0 -> 0
          [] pattern = 1 -> IF i % 2 = 1 THEN 16 ELSE 235
          [] OTHER -> 128])

\* a caller's output array before the call
FreshOutput(len) == Tuple([i \in 1 .. len |-> 170])

\* input lengths a caller passes: one short of n, or n
Short(n) == {k \in {n - 1, n} : k >= 0}

Pointers == {"ok", "nullIn", "nullOut"}

\* whether the value of unwritten or out-of-bounds bytes can show in this call
GarbageMatters(P, yuvData) ==
    /\ P.initialized
    /\ \/ Len(yuvData.bytes) < YuvCopyLen(P)
       \/ Bytes(P.yuvMat) # YuvCopyLen(P)
       \/ Bytes(P.rgbaMat) # RgbaCopyLen(P)
       \/ Bytes(P.tempMat) # RgbaCopyLen(P)

\* ------------------------------------------------ direct calls on one processor
\* one call of init; failAt = 0: every allocation succeeds
DoInit(width, height, failAt) ==
    /\ \E r \in {init(processor, width, height, failAt)} :
          /\ processor' = r.P
          /\ call' = [NoCall EXCEPT !.op = "init", !.ret = r.ret,
                                    !.positive = width > 0 /\ height > 0]
          /\ allocFailed' = allocFailed + (IF r.ret = "exception" THEN 1 ELSE 0)
    /\ output' = << >>
    /\ frameFailed' = FALSE
    /\ UNCHANGED << g_processor, lastThresholds, instances, nativeInitOk, canny >>

CallInit ==
    /\ Idle
    /\ \E width \in Widths, height \in Heights : DoInit(width, height, 0)

\* init running out of memory in one of its allocations
CallInitAllocFails ==
    /\ Idle
    /\ allocFailed < MaxAllocFailures
    /\ \E width \in Widths, height \in Heights, failAt \in AllocFailures :
          /\ ~InvalidDimensions(width, height)
          /\ DoInit(width, height, failAt)

CallRelease ==
    /\ Idle
    /\ processor' = release(processor)
    /\ call' = [NoCall EXCEPT !.op = "release"]
    /\ output' = << >>
    /\ frameFailed' = FALSE
    /\ UNCHANGED << g_processor, allocFailed, lastThresholds, instances,
                    nativeInitOk, canny >>

CallSetCannyThresholds ==
    /\ Idle
    /\ \E t \in ThresholdChoices :
          /\ processor' = setCannyThresholds(processor, t[1], t[2])
          /\ call' = [NoCall EXCEPT !.op = "setCannyThresholds"]
          /\ lastThresholds' = t
    /\ output' = << >>
    /\ frameFailed' = FALSE
    /\ UNCHANGED << g_processor, allocFailed, instances, nativeInitOk, canny >>

\* the arrays a caller hands to processFrame
InputPtr(ptrs, pattern, inLen) ==
    IF ptrs = "nullIn" THEN NullPtr ELSE Ptr(InputFrame(pattern, inLen))
OutputPtr(ptrs, outLen) ==
    IF ptrs = "nullOut" THEN NullPtr ELSE Ptr(FreshOutput(outLen))

\* the record of a processFrame call that returned
Returned(c, r) ==
    [c EXCEPT !.ret = r.ret, !.ub = r.ub, !.readLen = r.readLen,
              !.writeLen = r.writeLen, !.trace = r.trace]

CallProcessFrame ==
    /\ Idle
    /\ \E pattern \in Patterns, inLen \in Short(YuvCopyLen(processor)),
          ptrs \in Pointers, mode \in Modes, garbage \in GarbageBytes :
          /\ ptrs # "ok" =>
                (pattern = 1 /\ inLen = YuvCopyLen(processor) /\ mode = MODE_RAW)
          /\ \E yuvData \in {InputPtr(ptrs, pattern, inLen)},
                outputRgba \in {OutputPtr(ptrs, RgbaCopyLen(processor) + 1)} :
                /\ garbage # 0 => GarbageMatters(processor, yuvData)
                /\ \E r \in {processFrame(processor, yuvData, inLen, outputRgba,
                                          mode, garbage)},
                      c \in {[NoCall EXCEPT !.op = "processFrame", !.mode = mode,
                                            !.inLen = inLen,
                                            !.outLen = Len(outputRgba.bytes),
                                            !.nullIn = yuvData.null,
                                            !.nullOut = outputRgba.null]} :
                      \* undefined behaviour on the way: the call may return
                      \* all the same, or the process dies
                      \/ /\ processor' = r.P
                         /\ output' = r.out
                         /\ call' = Returned(c, r)
                      \/ /\ r.ub # {}
                         /\ call' = [c EXCEPT !.ret = "crash", !.ub = r.ub]
                         /\ output' = << >>
                         /\ UNCHANGED processor
    /\ frameFailed' = FALSE
    /\ UNCHANGED << g_processor, allocFailed, lastThresholds, instances,
                    nativeInitOk, canny >>

\* the call returns to the caller, who drops the output array; a crashed
\* process returns nowhere
Return ==
    /\ ~Idle
    /\ call.ret # "crash"
    /\ call' = NoCall
    /\ output' = << >>
    /\ frameFailed' = (/\ call.op = "processFrame"
                       /\ call.ret = "false"
                       /\ processor.initialized)
    /\ UNCHANGED << processor, g_processor, allocFailed, lastThresholds,
                    instances, nativeInitOk, canny >>

Next ==
    \/ CallInit
    \/ CallRelease
    \/ CallSetCannyThresholds
    \/ CallProcessFrame
    \/ Return

\* the processor while every allocation succeeds
Spec == Init /\ [][Next]_vars

NextAlloc ==
    \/ Next
    \/ CallInitAllocFails

\* the processor when init can run out of memory
SpecAlloc == Init /\ [][NextAlloc]_vars

\* ------------------------------------------------ jni_bridge.cpp
NullHandle == [null |-> TRUE, obj |-> OpenCVProcessor]
Handle(P) == [null |-> FALSE, obj |-> P]

\* the sizes nativeProcessFrame expects, from the width and height of the call
ExpectedInputSize(width, height) == (width * height * 3) \div 2
ExpectedOutputSize(width, height) == width * height * 4

\* what nativeInit makes of the result of init on the new object; an
\* exception leaving init crosses the JNI boundary uncaught
\* nativeInit keeping the object whose init failed
Initialised_keepsFailed(r) ==
    CASE r.ret = "exception" -> [g |-> Handle(r.P), ret |-> "crash", deleted |-> 0]
      [] r.ret = "false" -> [g |-> Handle(r.P), ret |-> "false", deleted |-> 0]
      [] OTHER -> [g |-> Handle(r.P), ret |-> "true", deleted |-> 0]

\* deleted counts the delete statements executed
Initialised(r) ==
    CASE r.ret = "exception" -> [g |-> Handle(r.P), ret |-> "crash", deleted |-> 0]
      [] r.ret = "false" -> [g |-> NullHandle, ret |-> "false", deleted |-> 1]
      [] OTHER -> [g |-> Handle(r.P), ret |-> "true", deleted |-> 0]

\* the clean-up of the existing processor at the top of nativeInit
CleanedUp(g, r) == [r EXCEPT !.deleted = @ + (IF g.null THEN 0 ELSE 1)]

\* nativeInit handing the thresholds of the old object on to the new one
nativeInit_keepsThresholds(g, width, height, failAt) ==
    CleanedUp(g, Initialised(init(setCannyThresholds(OpenCVProcessor,
                                                     g.obj.cannyLowThreshold,
                                                     g.obj.cannyHighThreshold),
                                  width, height, failAt)))

\* nativeInit: the old object is deleted, a new one constructed and initialised
nativeInit(g, width, height, failAt) ==
    CleanedUp(g, Initialised(init(OpenCVProcessor, width, height, failAt)))

\* what GetByteArrayElements can do: hand out the elements of both arrays
\* in place ("ok") or as copies ("copy"), or fail on one of the arrays
Pins == {"ok", "copy", "input", "output"}

\* the release modes of ReleaseByteArrayElements: copy back and free, or
\* free without copying back
JNI_COPY_BACK == 0
JNI_ABORT == 2

\* the Java array after ReleaseByteArrayElements(array, elems, mode): a
\* copy is written back unless the mode is JNI_ABORT, elements handed out
\* in place are the array
ReleaseByteArrayElements(array, elems, mode, isCopy) ==
    IF isCopy /\ mode = JNI_ABORT THEN array ELSE elems

\* a return of nativeProcessFrame before the call of processFrame; acquired
\* are the arrays whose elements it got, released its releases in order
Rejected(g, outputArr, acquired, released) ==
    [g |-> g, ret |-> "false", out |-> outputArr, ub |-> {},
     readLen |-> 0, writeLen |-> 0, trace |-> << >>,
     acquired |-> acquired, released |-> released, invoked |-> FALSE]

\* returning without a release when the output elements are not available
ReleasedInput_none == << >>

\* the release when the elements of the output array are not available
ReleasedInput == << << "input", JNI_ABORT >> >>

\* the releases of a size mismatch
ReleasedBoth == << << "input", JNI_ABORT >>, << "output", JNI_ABORT >> >>

\* the releases after processFrame
ReleasedProcessed == << << "input", JNI_ABORT >>, << "output", JNI_COPY_BACK >> >>

\* the return after processFrame: the output array is copied back
Processed(r, outputArr, isCopy) ==
    [g |-> Handle(r.P), ret |-> r.ret,
     out |-> ReleaseByteArrayElements(outputArr, r.out, ReleasedProcessed[2][2],
                                      isCopy),
     ub |-> r.ub, readLen |-> r.readLen, writeLen |-> r.writeLen,
     trace |-> r.trace, acquired |-> {"input", "output"},
     released |-> ReleasedProcessed, invoked |-> TRUE]

\* nativeProcessFrame: inputArr and outputArr are the caller's arrays
nativeProcessFrame(g, inputArr, outputArr, width, height, mode, pin, garbage) ==
    IF g.null THEN Rejected(g, outputArr, {}, << >>)
    ELSE IF pin = "input" THEN Rejected(g, outputArr, {}, << >>)
    ELSE IF pin = "output" THEN Rejected(g, outputArr, {"input"}, ReleasedInput)
    ELSE IF Len(inputArr) < ExpectedInputSize(width, height)
    THEN Rejected(g, outputArr, {"input", "output"}, ReleasedBoth)
    ELSE IF Len(outputArr) < ExpectedOutputSize(width, height)
    THEN Rejected(g, outputArr, {"input", "output"}, ReleasedBoth)
    ELSE Processed(processFrame(g.obj, Ptr(inputArr), Len(inputArr),
                                Ptr(outputArr), mode, garbage),
                   outputArr, pin = "copy")

nativeSetCannyThresholds(g, lowThreshold, highThreshold) ==
    IF g.null THEN g
    ELSE Handle(setCannyThresholds(g.obj, lowThreshold, highThreshold))

nativeRelease(g) == NullHandle

\* the objects nativeRelease deletes
Deleted(g) == IF g.null THEN 0 ELSE 1

\* ------------------------------------------------ calls through the JNI entry points
CallNativeInit ==
    /\ Idle
    /\ \E width \in Widths, height \in Heights, failAt \in {0} \cup AllocFailures :
          /\ failAt # 0 => ~InvalidDimensions(width, height)
          /\ \E r \in {nativeInit(g_processor, width, height, failAt)} :
                /\ g_processor' = r.g
                /\ call' = [NoCall EXCEPT !.op = "nativeInit", !.ret = r.ret,
                                          !.positive = width > 0 /\ height > 0,
                                          !.deleted = r.deleted]
                /\ instances' = instances + 1 - r.deleted
                /\ nativeInitOk' = (r.ret = "true")
    /\ output' = << >>
    /\ frameFailed' = FALSE
    /\ UNCHANGED << processor, allocFailed, lastThresholds, canny >>

CallNativeRelease ==
    /\ Idle
    /\ g_processor' = nativeRelease(g_processor)
    /\ call' = [NoCall EXCEPT !.op = "nativeRelease",
                              !.deleted = Deleted(g_processor)]
    /\ instances' = instances - Deleted(g_processor)
    /\ nativeInitOk' = FALSE
    /\ output' = << >>
    /\ frameFailed' = FALSE
    /\ UNCHANGED << processor, allocFailed, lastThresholds, canny >>

CallNativeSetCannyThresholds ==
    /\ Idle
    /\ \E t \in ThresholdChoices :
          /\ g_processor' = nativeSetCannyThresholds(g_processor, t[1], t[2])
          /\ call' = [NoCall EXCEPT !.op = "nativeSetCannyThresholds"]
          /\ lastThresholds' = t
    /\ output' = << >>
    /\ frameFailed' = FALSE
    /\ UNCHANGED << processor, allocFailed, instances, nativeInitOk, canny >>

\* the heights a caller of nativeProcessFrame passes: they lie below, at and
\* above the heights the processor can have been initialised with
FrameHeights == {0, 2}

\* the array lengths of a call: both as the call's width and height ask, or
\* one of them a byte short; a caller passes the empty frame or a frame of
\* positive width and height
Lengths(width, height) ==
    {<< ExpectedInputSize(width, height), ExpectedOutputSize(width, height) >>}
    \cup {<< n, ExpectedOutputSize(width, height) >> :
             n \in Short(ExpectedInputSize(width, height))}
    \cup {<< ExpectedInputSize(width, height), n >> :
             n \in Short(ExpectedOutputSize(width, height))}

\* the record of a nativeProcessFrame call that returned
ReturnedNative(c, r) ==
    [Returned(c, r) EXCEPT !.acquired = r.acquired, !.released = r.released,
                           !.invoked = r.invoked]

CallNativeProcessFrame ==
    /\ Idle
    /\ \E width \in Widths, height \in FrameHeights, mode \in Modes, pin \in Pins,
          garbage \in GarbageBytes :
       \E len \in Lengths(width, height) :
          /\ (width = 0) = (height = 0)
          /\ pin \in {"input", "output"} =>
                (mode = MODE_RAW
                 /\ len = << ExpectedInputSize(width, height),
                             ExpectedOutputSize(width, height) >>)
          /\ \E inputArr \in {InputFrame(1, len[1])},
                outputArr \in {FreshOutput(len[2])} :
                /\ garbage # 0 =>
                      (~g_processor.null
                       /\ GarbageMatters(g_processor.obj, Ptr(inputArr)))
                /\ \E r \in {nativeProcessFrame(g_processor, inputArr, outputArr,
                                                width, height, mode, pin, garbage)},
                      c \in {[NoCall EXCEPT !.op = "nativeProcessFrame",
                                            !.mode = mode, !.inLen = len[1],
                                            !.outLen = len[2]]} :
                      \* undefined behaviour on the way: the call may return
                      \* all the same, or the process dies
                      \/ /\ g_processor' = r.g
                         /\ output' = r.out
                         /\ call' = ReturnedNative(c, r)
                      \/ /\ r.ub # {}
                         /\ call' = [c EXCEPT !.ret = "crash", !.ub = r.ub]
                         /\ output' = << >>
                         /\ UNCHANGED g_processor
    /\ frameFailed' = FALSE
    /\ UNCHANGED << processor, allocFailed, lastThresholds, instances,
                    nativeInitOk, canny >>

NextJNI ==
    \/ CallNativeInit
    \/ CallNativeRelease
    \/ CallNativeSetCannyThresholds
    \/ CallNativeProcessFrame
    \/ Return

SpecJNI == Init /\ [][NextJNI]_vars

\* ------------------------------------------------ the threshold experiment
\* one frame is processed in edge-detection mode under two pairs of
\* thresholds, the second pair not below the first in either component
\* the frames: width, height and where the bright part lies
CannyFrames == {<< 4, 4, "right" >>, << 4, 4, "corner" >>, << 6, 4, "bar" >>}

\* the values the thresholds are taken from
CannyLevels == {0, 60, 120, 240, 480, 1000}

CannyPairs == CannyLevels \X CannyLevels

\* an NV21 frame with a sharp step between black (16) and white (235) in
\* the luma plane and neutral chroma (128)
StepFrame(f) ==
    Tuple([i \in 1 .. ((f[1] * f[2] * 3) \div 2) |->
        IF i > f[1] * f[2] THEN 128
        ELSE LET r == (i - 1) \div f[1]
                 c == (i - 1) % f[1]
             IN  CASE f[3] = "right" -> IF 2 * c >= f[1] THEN 235 ELSE 16
                   [] f[3] = "corner" ->
                        IF 2 * c < f[1] /\ 2 * r < f[2] THEN 235 ELSE 16
                   [] OTHER -> IF c = 2 \/ (c = 3 /\ r < 2) THEN 235 ELSE 16])

\* the pixels of an RGBA output that are marked as edge (white)
EdgeCount(out) == Cardinality({p \in 1 .. (Len(out) \div 4) : out[4 * p - 3] = 255})

InitCanny ==
    /\ processor = OpenCVProcessor
    /\ g_processor = NullHandle
    /\ call = NoCall
    /\ output = << >>
    /\ allocFailed = 0
    /\ frameFailed = FALSE
    /\ lastThresholds = << DefaultLowThreshold, DefaultHighThreshold >>
    /\ instances = 0
    /\ nativeInitOk = FALSE
    /\ \E f \in CannyFrames, t1 \in CannyPairs, t2 \in CannyPairs :
          /\ t1[1] <= t2[1]
          /\ t1[2] <= t2[2]
          /\ canny = [stage |-> 1, frame |-> f, pairs |-> << t1, t2 >>,
                      counts |-> << >>]

\* init with the dimensions of the frame
CannyInit ==
    /\ canny.stage = 1
    /\ processor' = init(processor, canny.frame[1], canny.frame[2], 0).P
    /\ canny' = [canny EXCEPT !.stage = 2]
    /\ UNCHANGED << g_processor, call, output, allocFailed, frameFailed,
                    lastThresholds, instances, nativeInitOk >>

\* setCannyThresholds with the first pair, and after the first frame with
\* the second
CannySetThresholds ==
    /\ canny.stage \in {2, 4}
    /\ \E t \in {canny.pairs[canny.stage \div 2]} :
          /\ processor' = setCannyThresholds(processor, t[1], t[2])
          /\ lastThresholds' = t
    /\ canny' = [canny EXCEPT !.stage = @ + 1]
    /\ UNCHANGED << g_processor, call, output, allocFailed, frameFailed,
                    instances, nativeInitOk >>

\* processFrame in edge-detection mode on the frame; the edge pixels of
\* its output are counted
CannyProcessFrame ==
    /\ canny.stage \in {3, 5}
    /\ \E r \in {processFrame(processor, Ptr(StepFrame(canny.frame)),
                               YuvCopyLen(processor),
                               Ptr(FreshOutput(RgbaCopyLen(processor))),
                               MODE_CANNY, 0)} :
          /\ r.ret = "true"
          /\ processor' = r.P
          /\ canny' = [canny EXCEPT !.stage = @ + 1,
                                    !.counts = Append(@, EdgeCount(r.out))]
    /\ UNCHANGED << g_processor, call, output, allocFailed, frameFailed,
                    lastThresholds, instances, nativeInitOk >>

NextCanny ==
    \/ CannyInit
    \/ CannySetThresholds
    \/ CannyProcessFrame

SpecCanny == InitCanny /\ [][NextCanny]_vars

\* ------------------------------------------------ properties
AllFreed(P) ==
    /\ ~Allocated(P.yuvMat)
    /\ ~Allocated(P.rgbaMat)
    /\ ~Allocated(P.grayMat)
    /\ ~Allocated(P.edgesMat)
    /\ ~Allocated(P.tempMat)

AllAllocated(P) ==
    /\ Allocated(P.yuvMat)
    /\ Allocated(P.rgbaMat)
    /\ Allocated(P.grayMat)
    /\ Allocated(P.edgesMat)
    /\ Allocated(P.tempMat)

\* allocation, rows, columns and channels of a matrix
Shape(m) == << Allocated(m), m.rows, m.cols, m.ch >>

\* everything of a processor but the pixels in its buffers
Frame(P) ==
    << P.frameWidth, P.frameHeight, P.initialized, P.cannyLowThreshold,
       P.cannyHighThreshold, Shape(P.yuvMat), Shape(P.rgbaMat),
       Shape(P.grayMat), Shape(P.edgesMat), Shape(P.tempMat) >>

\* C1: a processFrame call on a processor whose initialized flag is false
\* returns failure without any undefined behaviour, writes no byte of the
\* output and leaves the flag false, whatever input, output and mode it is
\* given and whatever the processor went through before.
C1_UninitializedProcessFrameFails ==
    [][(~processor.initialized /\ call'.op = "processFrame")
          => /\ call'.ret = "false"
             /\ call'.ub = {}
             /\ call'.writeLen = 0
             /\ output' = FreshOutput(call'.outLen)
             /\ ~processor'.initialized]_vars

\* a processFrame with both buffers given has failed on a processor that was
\* released after an init, or whose init did not complete
C1_Witness ==
    /\ call.op = "processFrame"
    /\ call.ret = "false"
    /\ ~call.nullIn /\ ~call.nullOut
    /\ ~processor.initialized
    /\ processor.frameWidth > 0

\* C2: on a ready processor, processFrame with both buffers given and an
\* input shorter than width*height*3/2 returns failure, in every mode.
C2_UndersizedInputFails ==
    [][(/\ processor.initialized
        /\ call'.op = "processFrame"
        /\ ~call'.nullIn /\ ~call'.nullOut
        /\ call'.inLen < YuvCopyLen(processor))
          => call'.ret = "false"]_vars

\* C3: after a successful nativeInit, a nativeProcessFrame call reads no more
\* bytes than its input array holds and writes no more than its output array
\* holds, whatever width and height it is given, and a call whose arrays are
\* too small for the stored dimensions is rejected before anything is read
\* or written.
C3_NativeProcessFrameBounded ==
    [][(~g_processor.null /\ call'.op = "nativeProcessFrame")
          => /\ call'.ub = {}
             /\ call'.readLen <= call'.inLen
             /\ call'.writeLen <= call'.outLen
             /\ (\/ call'.inLen < YuvCopyLen(g_processor.obj)
                 \/ call'.outLen < RgbaCopyLen(g_processor.obj))
                   => /\ call'.ret = "false"
                      /\ call'.readLen = 0
                      /\ call'.writeLen = 0]_vars

\* C4: as long as no allocation has failed, an initialized processor has all
\* five buffers allocated and sized for its stored width and height: the
\* source buffer width*height*3/2 bytes, the converted and the scratch buffer
\* width*height*4 bytes, the luma and the edge buffer width*height bytes.
C4_BuffersSizedForInit ==
    (allocFailed = 0 /\ processor.initialized)
       => /\ AllAllocated(processor)
          /\ Bytes(processor.yuvMat) = YuvCopyLen(processor)
          /\ Bytes(processor.rgbaMat) = RgbaCopyLen(processor)
          /\ Bytes(processor.tempMat) = RgbaCopyLen(processor)
          /\ Bytes(processor.grayMat)
                = processor.frameWidth * processor.frameHeight
          /\ Bytes(processor.edgesMat)
                = processor.frameWidth * processor.frameHeight

\* C5: an init in which the allocation of one of the buffers fails does not
\* report success and leaves the processor fully released: the initialized
\* flag false and none of the five buffers allocated.
C5_FailedAllocationReleases ==
    [][(call'.op = "init" /\ allocFailed' > allocFailed)
          => /\ call'.ret # "true"
             /\ ~processor'.initialized
             /\ AllFreed(processor')]_vars

C7_ReleaseFreesAll ==
    [][call'.op = "release"
          => /\ ~processor'.initialized
             /\ AllFreed(processor')
             /\ release(processor') = processor']_vars

\* C8: a processFrame that returns, with success or with failure, leaves the
\* stored dimensions, the flag, the thresholds and the allocation and size of
\* all five buffers as they were; and after a failing processFrame on a ready
\* processor, a processFrame with both buffers given, a full-size input and
\* output and a mode of 0, 1 or 2 succeeds.
C8_ProcessFrameKeepsState ==
    [][/\ (call'.op = "processFrame" /\ call'.ret # "crash")
             => Frame(processor') = Frame(processor)
       /\ (/\ processor.initialized
           /\ frameFailed
           /\ call'.op = "processFrame"
           /\ ~call'.nullIn /\ ~call'.nullOut
           /\ call'.mode \in {MODE_RAW, MODE_GRAYSCALE, MODE_CANNY}
           /\ call'.inLen >= YuvCopyLen(processor)
           /\ call'.outLen >= RgbaCopyLen(processor))
             => call'.ret = "true"]_vars

\* C9: on a ready processor, processFrame with a mode other than 0, 1 and 2
\* returns failure, writes no byte of the output and leaves the luma, the
\* edge and the scratch buffer as they were.
C9_UnknownModeFails ==
    [][(/\ processor.initialized
        /\ call'.op = "processFrame"
        /\ call'.mode \notin {MODE_RAW, MODE_GRAYSCALE, MODE_CANNY})
          => /\ call'.ret = "false"
             /\ output' = FreshOutput(call'.outLen)
             /\ processor'.grayMat = processor.grayMat
             /\ processor'.edgesMat = processor.edgesMat
             /\ processor'.tempMat = processor.tempMat]_vars

\* the buffer a successful call copies out: the converted buffer in mode 0,
\* the scratch buffer in modes 1 and 2
ResultBuffer(P, mode) ==
    IF mode = MODE_RAW THEN P.rgbaMat.data ELSE P.tempMat.data

\* C10: a successful processFrame on a ready processor writes the bytes
\* 0 .. width*height*4-1 of the output and no byte after them, and each of
\* these bytes is the byte at the same index of the converted buffer
\* (mode 0) or of the scratch buffer (modes 1 and 2) as the call leaves it.
C10_SuccessWritesResult ==
    [][(/\ processor.initialized
        /\ call'.op = "processFrame"
        /\ call'.ret = "true")
          => /\ call'.writeLen = RgbaCopyLen(processor)
             /\ \A i \in 1 .. Len(output') :
                   IF i <= RgbaCopyLen(processor)
                   THEN /\ i <= Len(ResultBuffer(processor', call'.mode))
                        /\ output'[i] = ResultBuffer(processor', call'.mode)[i]
                   ELSE output'[i] = FreshOutput(Len(output'))[i]]_vars

\* the stored thresholds of a processor
Thresholds(P) == << P.cannyLowThreshold, P.cannyHighThreshold >>

\* C11: at every moment the stored thresholds are the arguments of the most
\* recent setCannyThresholds call exactly as given, low > high included,
\* whether the processor was initialized at that call or not, and (50, 150)
\* before the first such call; init and release leave them as they are; and
\* a successful edge-detection processFrame leaves in the edge buffer what
\* cv::Canny makes of the blurred luma buffer with exactly these two values.
C11_ThresholdsAsLastSet ==
    /\ [](Thresholds(processor) = lastThresholds)
    /\ [][/\ (call'.op \in {"init", "release"}
                => Thresholds(processor') = Thresholds(processor))
          /\ (/\ call'.op = "processFrame"
              /\ call'.mode = MODE_CANNY
              /\ call'.ret = "true")
                => processor'.edgesMat
                      = Canny(processor'.grayMat, processor.edgesMat,
                              lastThresholds[1], lastThresholds[2])]_vars

\* an edge-detection processFrame has succeeded with thresholds that were
\* given with low above high and are stored that way
C11_Witness ==
    /\ call.op = "processFrame"
    /\ call.mode = MODE_CANNY
    /\ call.ret = "true"
    /\ lastThresholds[1] > lastThresholds[2]
    /\ Thresholds(processor) = lastThresholds

\* C12: every processFrame call comes back to its caller with a return
\* value, whatever happens in its converter step and its mode step: no call
\* ends the process, and a call in which the colour conversion rejects the
\* layout of the source buffer returns failure.
C12_NoFaultEscapes ==
    [][call'.op = "processFrame"
          => /\ call'.ret \in {"true", "false"}
             /\ (processor.initialized /\ ~call'.nullIn /\ ~call'.nullOut
                 /\ cvtColorYuvThrows(processor.yuvMat))
                   => call'.ret = "false"]_vars

\* C13: a successful grayscale processFrame on a ready processor, given an
\* input of at least width*height*3/2 bytes, leaves at every pixel of the
\* width*height frame an output whose three colour bytes equal that pixel's
\* byte in the luma buffer and whose alpha byte is 255.
C13_GrayscaleChannelsEqual ==
    [][(/\ processor.initialized
        /\ call'.op = "processFrame"
        /\ call'.mode = MODE_GRAYSCALE
        /\ call'.ret = "true"
        /\ call'.inLen >= YuvCopyLen(processor))
          => \A p \in 1 .. (processor.frameWidth * processor.frameHeight) :
                /\ p <= Bytes(processor'.grayMat)
                /\ output'[4 * p - 3] = processor'.grayMat.data[p]
                /\ output'[4 * p - 2] = processor'.grayMat.data[p]
                /\ output'[4 * p - 1] = processor'.grayMat.data[p]
                /\ output'[4 * p] = 255]_vars

\* C14: for each frame with a sharp step and each two pairs of thresholds of
\* which the second is not below the first in either component, the
\* edge-detection processFrame after setCannyThresholds with the second pair
\* marks no more pixels as edge than the one after setCannyThresholds with
\* the first pair.
C14_RaisingThresholdsLosesEdges ==
    canny.stage = 6 => canny.counts[2] <= canny.counts[1]

\* both frames have been processed; the first pair of thresholds marked
\* edge pixels and the second, higher pair marked fewer, but some
C14_Witness ==
    /\ canny.stage = 6
    /\ canny.counts[2] > 0
    /\ canny.counts[2] < canny.counts[1]

\* C15: every init that returns true, for whatever positive width and
\* height, even or odd, leaves a source buffer of at least width*height*3/2
\* bytes, and on a processor whose allocations all succeeded no processFrame
\* writes past the end of a buffer.
C15_SourceBufferHoldsCopy ==
    [][/\ (call'.op = "init" /\ call'.ret = "true")
             => Bytes(processor'.yuvMat) >= YuvCopyLen(processor')
       /\ (call'.op = "processFrame" /\ allocFailed = 0)
             => "write_past_end" \notin call'.ub]_vars

\* C16: in every processFrame call that returns, in every mode, each read of
\* one of the five buffers is preceded in the same call by a write of that
\* buffer that covers the bytes read: the copy-in before the colour
\* conversion reads the source buffer, the conversion before the converted
\* buffer is copied out or reduced, the reduction before the blur and the
\* edge extraction read the luma buffer, the extraction before the edge
\* buffer is expanded, the expansion before the scratch buffer is copied out.
C16_ReadsFollowWrites ==
    [][(call'.op = "processFrame" /\ call'.ret # "crash")
          => \A j \in 1 .. Len(call'.trace) :
                call'.trace[j][1] = "read"
                   => \E i \in 1 .. (j - 1) :
                         /\ call'.trace[i][1] = "write"
                         /\ call'.trace[i][2] = call'.trace[j][2]
                         /\ call'.trace[i][3] >= call'.trace[j][3]]_vars

\* C17: while the process lives, the handle is non-null exactly when the
\* most recent nativeInit returned true and nativeRelease was not called
\* since; a non-null handle points to an initialized processor; the heap
\* holds at most one processor, the one the handle points to; a nativeInit
\* with a width or height that is not positive returns false and leaves the
\* handle null, also when a ready processor existed before it; and a
\* nativeProcessFrame on a null handle returns false.
C17_HandleTracksInit ==
    /\ [](call.ret # "crash"
            => /\ (~g_processor.null) = nativeInitOk
               /\ ~g_processor.null => g_processor.obj.initialized
               /\ instances <= 1
               /\ instances = (IF g_processor.null THEN 0 ELSE 1))
    /\ [][/\ (call'.op = "nativeInit" /\ ~call'.positive)
                => (call'.ret = "false" /\ g_processor'.null)
          /\ (call'.op = "nativeProcessFrame" /\ g_processor.null)
                => (call'.ret = "false" /\ g_processor'.null)]_vars

\* a nativeInit with a dimension that is not positive has deleted a ready
\* processor and the object it made itself, and left the handle null
C17_Witness ==
    /\ call.op = "nativeInit"
    /\ ~call.positive
    /\ call.ret = "false"
    /\ call.deleted = 2
    /\ g_processor.null
    /\ instances = 0

\* C18: a nativeInit that returns true leaves the handle on a processor
\* with the thresholds (50, 150), whatever nativeSetCannyThresholds calls
\* came before it; a nativeSetCannyThresholds call on a null handle changes
\* neither the handle nor the object count; and a successful edge-detection
\* nativeProcessFrame leaves in the edge buffer what cv::Canny makes of the
\* blurred luma buffer with the thresholds stored behind the handle, not
\* with those of a call that was dropped.
C18_ThresholdsDieWithHandle ==
    [][/\ (call'.op = "nativeInit" /\ call'.ret = "true")
             => Thresholds(g_processor'.obj)
                   = << DefaultLowThreshold, DefaultHighThreshold >>
       /\ (call'.op = "nativeSetCannyThresholds" /\ g_processor.null)
             => (g_processor' = g_processor /\ instances' = instances)
       /\ (/\ call'.op = "nativeProcessFrame"
           /\ call'.mode = MODE_CANNY
           /\ call'.ret = "true")
             => g_processor'.obj.edgesMat
                   = Canny(g_processor'.obj.grayMat, g_processor.obj.edgesMat,
                           g_processor.obj.cannyLowThreshold,
                           g_processor.obj.cannyHighThreshold)]_vars

\* an edge-detection nativeProcessFrame has succeeded on a processor with
\* the default thresholds although the most recent nativeSetCannyThresholds
\* call, made before the handle was replaced or while it was null, asked
\* for others
C18_Witness ==
    /\ call.op = "nativeProcessFrame"
    /\ call.mode = MODE_CANNY
    /\ call.ret = "true"
    /\ lastThresholds # << DefaultLowThreshold, DefaultHighThreshold >>
    /\ Thresholds(g_processor.obj) = << DefaultLowThreshold, DefaultHighThreshold >>

\* how often a call released the elements of an array
Releases(c, array) ==
    Cardinality({i \in 1 .. Len(c.released) : c.released[i][1] = array})

\* C19: every nativeProcessFrame call that returns has released the
\* elements of each array it acquired exactly once and of no other array;
\* it has acquired none on a null handle; it releases the output array with
\* copy-back exactly when it has called processFrame; and when it has not
\* called processFrame the caller's output array is as it was before the
\* call.
C19_ArraysReleasedOnce ==
    [][(call'.op = "nativeProcessFrame" /\ call'.ret # "crash")
          => /\ \A array \in {"input", "output"} :
                   Releases(call', array)
                      = (IF array \in call'.acquired THEN 1 ELSE 0)
             /\ g_processor.null => call'.acquired = {}
             /\ call'.invoked
                   = (\E i \in 1 .. Len(call'.released) :
                         call'.released[i] = << "output", JNI_COPY_BACK >>)
             /\ ~call'.invoked => output' = FreshOutput(call'.outLen)]_vars

\* a nativeProcessFrame on a ready processor has returned false because the
\* elements of the output array could not be had, after releasing the
\* elements of the input array, the only ones it held
C19_Witness ==
    /\ call.op = "nativeProcessFrame"
    /\ call.ret = "false"
    /\ ~g_processor.null
    /\ ~call.invoked
    /\ call.acquired = {"input"}
    /\ call.released = << << "input", JNI_ABORT >> >>

====
